---- MODULE Spec2Model ----
(***************************************************************************)
(* The XBRL fact normalization pipeline of the SEC KPI tracker:            *)
(*   src/app.py                         pick_best_unit, label_period,      *)
(*                                      companyfacts_to_tag_df,            *)
(*                                      build_kpi_panel                    *)
(*   src/src/sec/src/sec/xbrl_facts.py  _pick_unit, _label_period,         *)
(*                                      tag_series, build_kpi_table        *)
(* and, in their own sections below, the filing history                    *)
(* (extract_filings_table) and the ticker listing (parse_ticker_map,       *)
(* load_ticker_map).                                                       *)
(* The functions are pure: a state holds one call's inputs (the facts      *)
(* payload, the requested KPI definitions, the pandas build) and, once an  *)
(* action has applied a function, what the call returned or that it raised.*)
(*                                                                         *)
(* Values.  A number, a missing value, a string and the float infinities   *)
(* are records [k, n, d]: k = "num" is the rational n/d (d > 0), "nan" a   *)
(* missing value (None / NaN), "str" a JSON string, "inf" is n * infinity. *)
(* A timestamp is the integer yyyymmdd; NaT is the timestamp of a date     *)
(* that did not parse.  None is a key that is absent from a JSON object.   *)
(***************************************************************************)
EXTENDS Integers, Sequences, FiniteSets, TLC

VARIABLES
    facts,      \* facts_json["facts"]: tag reference -> units dict, or None
    kpis,       \* the KPI definitions a panel is requested for
    pad,        \* the pandas build: Series.pct_change forward-fills by default
    sub_json,   \* a submissions payload, or None when no filings call is made
    cik,        \* the company id the filings are extracted for
    listing,    \* the ticker listing payload (data), or None when no resolver call is made
    pc,         \* "ready" before the call, "done" after it
    call,       \* the function that was applied
    ret         \* what the call returned

vars == <<facts, kpis, pad, sub_json, cik, listing, pc, call, ret>>

-----------------------------------------------------------------------------
(* Python / pandas values *)

None == "<None>"

NaT == -1

Num(n) == [k |-> "num", n |-> n, d |-> 1]

NaN == [k |-> "nan", n |-> 0, d |-> 1]

Str == [k |-> "str", n |-> 0, d |-> 1]

Inf(s) == [k |-> "inf", n |-> s, d |-> 1]

Frac(a, b) == IF b < 0 THEN [k |-> "num", n |-> 0 - a, d |-> 0 - b]
              ELSE [k |-> "num", n |-> a, d |-> b]

isna(c) == c.k = "nan"

Sign(a) == IF a > 0 THEN 1 ELSE IF a < 0 THEN 0 - 1 ELSE 0

\* two cells hold the same value (rationals compared by cross-multiplication)
SameCell(a, b) ==
    /\ a.k = b.k
    /\ a.k = "num" => a.n * b.d = b.n * a.d
    /\ a.k = "inf" => a.n = b.n

-----------------------------------------------------------------------------
(* Sequences *)

Range(s) == {s[i] : i \in 1..Len(s)}

\* ascending with NaT last / descending with NaT last (na_position="last")
AscBefore(a, b) == a # NaT /\ (b = NaT \/ a < b)

DescBefore(a, b) == a # NaT /\ (b = NaT \/ a > b)

-----------------------------------------------------------------------------
(* Helpers of src/app.py *)

\* pd.to_datetime(x, errors="coerce") on the date strings of the model
to_datetime_safe(x) ==
    CASE x = "2024-03-31" -> 20240331
      [] x = "2024-06-30" -> 20240630
      [] x = "2024-06-30T00:00:00" -> 20240630
      [] x = "2024-07-01" -> 20240701
      [] x = "2024-08-15" -> 20240815
      [] x = "2024-08-15T00:00:00" -> 20240815
      [] x = "2024-09-30" -> 20240930
      [] x = "2024-12-31" -> 20241231
      [] x = "2025-03-31" -> 20250331
      [] x = "2025-06-30" -> 20250630
      [] x = "2025-09-30" -> 20250930
      [] OTHER -> NaT

month(ts) == (ts \div 100) % 100

year(ts) == ts \div 10000

strip(s) == IF s = " " THEN "" ELSE s

label_period(frame, end_dt) ==
    IF frame # None /\ strip(frame) # "" THEN strip(frame)
    ELSE IF end_dt = NaT THEN "Unknown"
    ELSE ToString(year(end_dt)) \o "Q" \o ToString(((month(end_dt) - 1) \div 3) + 1)

RECURSIVE FirstPreferred(_, _)
FirstPreferred(units_dict, unit_pref) ==
    IF unit_pref = <<>> THEN None
    ELSE IF Head(unit_pref) \in DOMAIN units_dict THEN Head(unit_pref)
         ELSE FirstPreferred(units_dict, Tail(unit_pref))

\* pick_best_unit without the single-unit test: any unit is the fallback
pick_best_unit_any(units_dict, unit_pref) ==
    LET u == FirstPreferred(units_dict, unit_pref)
    IN  IF u # None THEN u
        ELSE IF DOMAIN units_dict # {}
             THEN CHOOSE k \in DOMAIN units_dict : TRUE
             ELSE None

pick_best_unit(units_dict, unit_pref) ==
    LET u == FirstPreferred(units_dict, unit_pref)
    IN  IF u # None THEN u
        ELSE IF Cardinality(DOMAIN units_dict) = 1
             THEN CHOOSE k \in DOMAIN units_dict : TRUE
             ELSE None

\* DataFrame(rows)[col] has dtype object: some record carries a string there
object_dtype(rows) == \E i \in 1..Len(rows) : rows[i].val.k = "str"

\* df["form"].astype(str): a missing form becomes the text "nan" or "None"
form_astype_str(rows, r) ==
    IF r.form # None THEN r.form
    ELSE IF \E i \in 1..Len(rows) : rows[i].form # None THEN "nan" ELSE "None"

keep_forms == {"10-Q", "10-K"}

\* sort_values with the filing date ascending too: the earliest filing first
end_asc_filed_asc(a, b) ==
    \/ AscBefore(a.end_dt, b.end_dt)
    \/ a.end_dt = b.end_dt /\ AscBefore(a.filed_dt, b.filed_dt)

\* sort_values(["end_dt", "filed_dt"], ascending=[True, False])
end_asc_filed_desc(a, b) ==
    \/ AscBefore(a.end_dt, b.end_dt)
    \/ a.end_dt = b.end_dt /\ DescBefore(a.filed_dt, b.filed_dt)

\* sort_values("end_dt")
end_asc(a, b) == AscBefore(a.end_dt, b.end_dt)

\* DataFrame.sort_values(by) as the normalizers call it: a stable sort, rows
\* that compare equal keep their order
StableSort(s, by) ==
    LET before(a, b) == IF by = <<"end_dt", "filed_dt">>
                        THEN end_asc_filed_desc(a, b) ELSE end_asc(a, b)
        pos(i) == 1 + Cardinality({j \in 1..Len(s) :
                        \/ before(s[j], s[i])
                        \/ ~before(s[i], s[j]) /\ j < i})
    IN  [p \in 1..Len(s) |-> s[CHOOSE i \in 1..Len(s) : pos(i) = p]]

\* drop_duplicates where NaT never equals NaT: every undated row is kept
RECURSIVE drop_duplicates_nat_distinct(_, _)
drop_duplicates_nat_distinct(s, seen) ==
    IF s = <<>> THEN <<>>
    ELSE IF Head(s).end_dt \in seen
         THEN drop_duplicates_nat_distinct(Tail(s), seen)
         ELSE <<Head(s)>> \o drop_duplicates_nat_distinct(Tail(s),
                                seen \cup ({Head(s).end_dt} \ {NaT}))

\* drop_duplicates(subset=["end_dt"], keep="first"); NaT equals NaT there
RECURSIVE drop_duplicates(_, _)
drop_duplicates(s, seen) ==
    IF s = <<>> THEN <<>>
    ELSE IF Head(s).end_dt \in seen THEN drop_duplicates(Tail(s), seen)
         ELSE <<Head(s)>> \o drop_duplicates(Tail(s), seen \cup {Head(s).end_dt})

\* one row of the tidy frame of companyfacts_to_tag_df
tag_df_row(rows, r) ==
    [period   |-> label_period(r.frame, to_datetime_safe(r.end)),
     end_dt   |-> to_datetime_safe(r.end),
     fy       |-> r.fy,
     fp       |-> r.fp,
     form     |-> form_astype_str(rows, r),
     filed_dt |-> to_datetime_safe(r.filed),
     val      |-> r.val]

\* pd.DataFrame(): no row
EmptyFrame == [status |-> "ok", rows |-> <<>>, unit |-> None, tag |-> None,
               object |-> FALSE]

\* the call raised instead of returning
Raised == [status |-> "raise", rows |-> <<>>, unit |-> None, tag |-> None,
           object |-> FALSE]

tag_ref(kpi) == kpi.taxonomy \o ":" \o kpi.tag

companyfacts_to_tag_df(facts_json, kpi) ==
    IF <<kpi.taxonomy, kpi.tag>> \notin DOMAIN facts_json THEN EmptyFrame
    ELSE
    LET units_dict == facts_json[<<kpi.taxonomy, kpi.tag>>]
        unit == pick_best_unit(units_dict, kpi.unit_preference)
    IN  IF DOMAIN units_dict = {} THEN EmptyFrame
        ELSE IF unit = None \/ unit = "" THEN EmptyFrame
        ELSE
        LET rows == units_dict[unit]
            kept(r) == form_astype_str(rows, r) \in keep_forms
            row(i) == tag_df_row(rows, SelectSeq(rows, kept)[i])
            df == [i \in 1..Len(SelectSeq(rows, kept)) |-> row(i)]
            dedup == drop_duplicates(StableSort(df, <<"end_dt", "filed_dt">>), {})
        IN  [status |-> "ok",
             rows   |-> StableSort(dedup, <<"end_dt">>),
             unit   |-> IF rows = <<>> THEN None ELSE unit,
             tag    |-> IF rows = <<>> THEN None ELSE tag_ref(kpi),
             object |-> object_dtype(rows)]

-----------------------------------------------------------------------------
(* pandas arithmetic on columns *)

Raise == [k |-> "raise", n |-> 0, d |-> 1]

\* one element of Series / Series.  float64: x/0 is +-inf and 0/0 is NaN.
\* dtype object: Python divides the elements that are both present, so a str
\* operand raises TypeError and a zero divisor raises ZeroDivisionError.
truediv(a, b, object) ==
    IF isna(a) \/ isna(b) THEN NaN
    ELSE IF a.k = "str" \/ b.k = "str" THEN Raise
    ELSE IF b.n = 0
         THEN IF object THEN Raise
              ELSE IF a.n = 0 THEN NaN ELSE Inf(Sign(a.n))
         ELSE Frac(a.n * b.d, a.d * b.n)

\* x - 1
sub_one(x) ==
    IF x.k = "num" THEN Frac(x.n - x.d, x.d) ELSE x

\* Series.ffill(): the last value present at or before row i
ffill(col) ==
    [i \in 1..Len(col) |->
        IF \A j \in 1..i : isna(col[j]) THEN NaN
        ELSE col[CHOOSE j \in 1..i :
                    ~isna(col[j]) /\ \A m \in (j + 1)..i : isna(col[m])]]

\* Series.pct_change(periods): data / data.shift(periods) - 1, where data is
\* the column forward-filled when the pandas build pads by default
pct_change(col, periods, object, pad_) ==
    LET data == IF pad_ THEN ffill(col) ELSE col
        shifted(i) == IF i - periods >= 1 THEN data[i - periods] ELSE NaN
    IN  [i \in 1..Len(col) |-> sub_one(truediv(data[i], shifted(i), object))]

-----------------------------------------------------------------------------
(* DataFrame.merge(how="outer") and sort_values *)

key(r, on) == [x \in on |-> r[x]]

\* a series row as a row of the wide table: its value under the KPI's label
wide_row(r, cells) ==
    [x \in (DOMAIN r \ {"val"}) \cup {"cells"} |->
        IF x = "cells" THEN cells ELSE r[x]]

\* merge(how="inner"): only the keys both sides have
merge_inner(base, p, label, on) ==
    LET match(b) == {j \in 1..Len(p) : key(p[j], on) = key(b, on)}
        matched(b) == match(b) # {}
        left == SelectSeq(base, matched)
    IN  [i \in 1..Len(left) |->
            [left[i] EXCEPT !.cells =
                (label :> p[CHOOSE j \in match(left[i]) : TRUE].val) @@ @]]

merge(base, p, label, on) ==
    LET cols == IF base = <<>> THEN {} ELSE DOMAIN base[1].cells
        match(b) == {j \in 1..Len(p) : key(p[j], on) = key(b, on)}
        unmatched(r) == \A i \in 1..Len(base) : key(base[i], on) # key(r, on)
        right == SelectSeq(p, unmatched)
    IN  [i \in 1..Len(base) |->
            [base[i] EXCEPT !.cells =
                (label :> (IF match(base[i]) = {} THEN NaN
                           ELSE p[CHOOSE j \in match(base[i]) : TRUE].val)) @@ @]]
        \o
        [i \in 1..Len(right) |->
            wide_row(right[i], (label :> right[i].val) @@ [c \in cols |-> NaN])]

RECURSIVE merge_all(_, _, _)
merge_all(base, pieces, on) ==
    IF pieces = <<>> THEN base
    ELSE merge_all(merge(base, Head(pieces).rows, Head(pieces).label, on),
                   Tail(pieces), on)

\* the rows left as merged, in any order
RECURSIVE any_order(_)
any_order(S) ==
    IF S = {} THEN {<<>>}
    ELSE UNION {{<<m>> \o t : t \in any_order(S \ {m})} : m \in S}

\* sort_values("end_dt"): every order of the rows that is ascending in
\* end_dt with NaT last; rows with equal end_dt may come in either order
RECURSIVE sort_values_end_dt(_)
sort_values_end_dt(S) ==
    IF S = {} THEN {<<>>}
    ELSE UNION {{<<m>> \o t : t \in sort_values_end_dt(S \ {m})} :
                m \in {x \in S : \A y \in S : ~end_asc(y, x)}}

-----------------------------------------------------------------------------
(* build_kpi_panel of src/app.py *)

\* the margin columns: name and numerator
margin_defs ==
    {[name |-> "Gross Margin", num |-> "Gross Profit"],
     [name |-> "Operating Margin", num |-> "Operating Income"],
     [name |-> "Net Margin", num |-> "Net Income"]}

delta_cols == {"Revenue", "Gross Profit", "Operating Income", "Net Income"}

columns_of(base) == IF base = <<>> THEN {} ELSE DOMAIN base[1].cells

\* the derived cells of a sorted base: margins, then (with_deltas) QoQ/YoY
derived_cells(base, objcols, pad_, with_deltas) ==
    LET cols == columns_of(base)
        col(c) == [i \in 1..Len(base) |-> base[i].cells[c]]
        margins == {m \in margin_defs : "Revenue" \in cols /\ m.num \in cols}
        deltas == IF with_deltas THEN delta_cols \cap cols ELSE {}
        margin(m) == [i \in 1..Len(base) |->
                        truediv(base[i].cells[m.num], base[i].cells["Revenue"],
                                m.num \in objcols \/ "Revenue" \in objcols)]
    IN  [x \in {m.name : m \in margins}
               \cup {c \o " QoQ %" : c \in deltas}
               \cup {c \o " YoY %" : c \in deltas} |->
            IF \E m \in margins : m.name = x
            THEN margin(CHOOSE m \in margins : m.name = x)
            ELSE IF \E c \in deltas : c \o " QoQ %" = x
            THEN pct_change(col(CHOOSE c \in deltas : c \o " QoQ %" = x), 1,
                            (CHOOSE c \in deltas : c \o " QoQ %" = x) \in objcols, pad_)
            ELSE pct_change(col(CHOOSE c \in deltas : c \o " YoY %" = x), 4,
                            (CHOOSE c \in deltas : c \o " YoY %" = x) \in objcols, pad_)]

\* the wide table with its derived columns, or that computing them raised
with_derived(base, objcols, pad_, with_deltas, audit) ==
    LET dc == derived_cells(base, objcols, pad_, with_deltas)
    IN  IF \E x \in DOMAIN dc : \E i \in 1..Len(base) : dc[x][i].k = "raise"
        THEN [status |-> "raise", panel |-> <<>>, columns |-> {}, audit |-> <<>>]
        ELSE [status  |-> "ok",
              panel   |-> [i \in 1..Len(base) |->
                            [base[i] EXCEPT !.cells = [x \in DOMAIN dc |-> dc[x][i]] @@ @]],
              columns |-> columns_of(base) \cup DOMAIN dc,
              audit   |-> audit]

on_panel == {"period", "end_dt", "fy", "fp", "form", "filed_dt"}

audit_row(k, d) ==
    IF d.rows = <<>>
    THEN [KPI |-> k.label, Status |-> "Missing", Tag |-> tag_ref(k), Unit |-> None]
    ELSE [KPI |-> k.label, Status |-> "OK", Tag |-> d.tag, Unit |-> d.unit]

\* every value build_kpi_panel can return (the order of rows with one end_dt
\* is the sort's), or that it raised
build_kpi_panel(facts_json, kpis_, pad_) ==
    LET d(i) == companyfacts_to_tag_df(facts_json, kpis_[i])
        audit_rows == [i \in 1..Len(kpis_) |-> audit_row(kpis_[i], d(i))]
        nonempty(pc_) == pc_.rows # <<>>
        pieces == SelectSeq([i \in 1..Len(kpis_) |->
                                [label |-> kpis_[i].label, rows |-> d(i).rows,
                                 object |-> d(i).object]], nonempty)
        base0 == [i \in 1..Len(Head(pieces).rows) |->
                    wide_row(Head(pieces).rows[i],
                             (Head(pieces).label :> Head(pieces).rows[i].val))]
        merged == merge_all(base0, Tail(pieces), on_panel)
        objcols == {pieces[i].label : i \in {j \in 1..Len(pieces) : pieces[j].object}}
    IN  IF pieces = <<>>
        THEN {[status |-> "ok", panel |-> <<>>, columns |-> {}, audit |-> audit_rows]}
        ELSE {with_derived(base, objcols, pad_, TRUE, audit_rows) :
                base \in sort_values_end_dt(Range(merged))}

-----------------------------------------------------------------------------
(* src/src/sec/src/sec/xbrl_facts.py *)

RECURSIVE FirstPref(_, _)
FirstPref(units, pref) ==
    IF pref = <<>> THEN None
    ELSE IF Head(pref) \in DOMAIN units THEN Head(pref)
         ELSE FirstPref(units, Tail(pref))

_pick_unit(units, pref) ==
    LET u == FirstPref(units, pref)
    IN  IF u # None THEN u
        ELSE IF Cardinality(DOMAIN units) = 1
             THEN CHOOSE k \in DOMAIN units : TRUE
             ELSE None

_label_period(end_dt, frame) ==
    IF frame # None /\ strip(frame) # "" THEN strip(frame)
    ELSE IF end_dt = NaT THEN "Unknown"
    ELSE ToString(year(end_dt)) \o "Q" \o ToString(((month(end_dt) - 1) \div 3) + 1)

\* one row of the frame of tag_series: it carries no fy and no fp
tag_series_row(r) ==
    [period   |-> _label_period(to_datetime_safe(r.end), r.frame),
     end_dt   |-> to_datetime_safe(r.end),
     form     |-> r.form,
     filed_dt |-> to_datetime_safe(r.filed),
     val      |-> r.val]

tag_series(companyfacts, k) ==
    IF <<k.taxonomy, k.tag>> \notin DOMAIN companyfacts THEN EmptyFrame
    ELSE
    LET units == companyfacts[<<k.taxonomy, k.tag>>]
        unit == _pick_unit(units, k.unit_preference)
    IN  IF DOMAIN units = {} THEN EmptyFrame
        ELSE IF unit = None \/ unit = "" THEN EmptyFrame
        ELSE
        LET rows == units[unit]
            kept(r) == r.form \in {"10-Q", "10-K"}
            df == [i \in 1..Len(SelectSeq(rows, kept)) |->
                        tag_series_row(SelectSeq(rows, kept)[i])]
            dedup == drop_duplicates(StableSort(df, <<"end_dt", "filed_dt">>), {})
        IN  IF rows = <<>> THEN EmptyFrame
            \* df.get("form", "") is the str "" when no record has a form:
            \* "".astype raises AttributeError
            ELSE IF \A i \in 1..Len(rows) : rows[i].form = None THEN Raised
            \* df[[..., "val"]] raises KeyError when no record has a val
            ELSE IF \A i \in 1..Len(rows) : isna(rows[i].val) THEN Raised
            ELSE [status |-> "ok",
                  rows   |-> StableSort(dedup, <<"end_dt">>),
                  unit   |-> unit,
                  tag    |-> tag_ref(k),
                  object |-> object_dtype(rows)]

KPI_DEFS ==
    <<[label |-> "Revenue", taxonomy |-> "us-gaap", tag |-> "Revenues",
       unit_preference |-> <<"USD">>],
      [label |-> "Gross Profit", taxonomy |-> "us-gaap", tag |-> "GrossProfit",
       unit_preference |-> <<"USD">>],
      [label |-> "Operating Income", taxonomy |-> "us-gaap",
       tag |-> "OperatingIncomeLoss", unit_preference |-> <<"USD">>],
      [label |-> "Net Income", taxonomy |-> "us-gaap", tag |-> "NetIncomeLoss",
       unit_preference |-> <<"USD">>]>>

on_table == {"period", "end_dt", "form", "filed_dt"}

\* every value build_kpi_table can return, or that it raised
build_kpi_table(companyfacts) ==
    LET d(i) == tag_series(companyfacts, KPI_DEFS[i])
        nonempty(pc_) == pc_.rows # <<>>
        pieces == SelectSeq([i \in 1..Len(KPI_DEFS) |->
                                [label |-> KPI_DEFS[i].label, rows |-> d(i).rows,
                                 object |-> d(i).object]], nonempty)
        base0 == [i \in 1..Len(Head(pieces).rows) |->
                    wide_row(Head(pieces).rows[i],
                             (Head(pieces).label :> Head(pieces).rows[i].val))]
        merged == merge_all(base0, Tail(pieces), on_table)
        objcols == {pieces[i].label : i \in {j \in 1..Len(pieces) : pieces[j].object}}
    IN  IF \E i \in 1..Len(KPI_DEFS) : d(i).status = "raise"
        THEN {[status |-> "raise", panel |-> <<>>, columns |-> {}, audit |-> <<>>]}
        ELSE IF pieces = <<>>
        THEN {[status |-> "ok", panel |-> <<>>, columns |-> {}, audit |-> <<>>]}
        ELSE {with_derived(base, objcols, FALSE, FALSE, <<>>) :
                base \in sort_values_end_dt(Range(merged))}

-----------------------------------------------------------------------------
(* Inputs: bounded sets of payloads and KPI definitions *)

MaxPref == 2

MaxRecs == 3

MaxPanelRecs == 2

MaxMarginRecs == 2

MaxDates == 5

KPIDefinition(label, taxonomy, tag, unit_preference) ==
    [label |-> label, taxonomy |-> taxonomy, tag |-> tag,
     unit_preference |-> unit_preference]

Revenue == KPIDefinition("Revenue", "us-gaap", "Revenues", <<"USD">>)

GrossProfit == KPIDefinition("Gross Profit", "us-gaap", "GrossProfit", <<"USD">>)

EPSDiluted == KPIDefinition("EPS Diluted", "us-gaap", "EarningsPerShareDiluted",
                            <<"USD/shares", "USD / shares", "USD">>)

\* one record of a unit's list; None is an absent key, NaN an absent val
Rec(end, filed, form, val, fy, frame) ==
    [end |-> end, filed |-> filed, form |-> form, val |-> val, fy |-> fy,
     fp |-> "Q2", frame |-> frame]

SeqsUpTo(S, n) == UNION {[1..m -> S] : m \in 0..n}

tag_of(kpi) == <<kpi.taxonomy, kpi.tag>>

NoReturn == [status |-> "none"]

\* --- unit selection: any set of units, any preference list
UnitNames == {"USD", "USD/shares", "XYZ", ""}

UnitLists == {<<>>, <<Rec("2024-03-31", "2024-07-01", "10-Q", Num(7), 2024, None)>>}

InitUnit ==
    /\ \E pref \in SeqsUpTo(UnitNames, MaxPref) :
            kpis = <<KPIDefinition("EPS Diluted", "us-gaap",
                                   "EarningsPerShareDiluted", pref)>>
    /\ \E U \in SUBSET UnitNames : \E ud \in [U -> UnitLists] :
            facts \in {(tag_of(EPSDiluted) :> ud)}
    /\ pad = TRUE
    /\ sub_json = None /\ cik = None /\ listing = None
    /\ pc = "ready"
    /\ call = None
    /\ ret = NoReturn

\* --- the normalizer: one concept, records that share or lack period ends,
\*     filing dates and forms
NormRecs ==
    {Rec(e, f, fm, v, 2024, None) :
        e \in {"2024-03-31", "2024-06-30", "n/a"},
        f \in {"2024-07-01", "2024-08-15", "n/a"},
        fm \in {"10-Q", "8-K"},
        v \in {Num(1), Num(2)}}
    \cup {Rec("2024-06-30T00:00:00", "2024-08-15T00:00:00", "10-K", Num(3), 2024, None),
          Rec("2024-06-30", "2024-07-01", None, Num(4), 2024, " "),
          Rec("2024-03-31", "2024-08-15", "10-Q", Str, 2024, "CY2024Q1"),
          Rec("2024-03-31", "2024-08-15", None, NaN, 2024, None)}

InitNorm ==
    /\ kpis = <<Revenue>>
    /\ \E recs \in SeqsUpTo(NormRecs, MaxRecs) :
            facts = (tag_of(Revenue) :> ("USD" :> recs))
    /\ pad = TRUE
    /\ sub_json = None /\ cik = None /\ listing = None
    /\ pc = "ready"
    /\ call = None
    /\ ret = NoReturn

\* --- the panel: Revenue and Gross Profit series that share some periods,
\*     under one unit or another, requested in several orders
PanelRecs ==
    {Rec(e, f, "10-Q", Num(3), 2024, None) :
        e \in {"2024-03-31", "2024-06-30", "n/a"},
        f \in {"2024-07-01", "2024-08-15"}}
    \cup {Rec("2024-03-31", "2024-07-01", "8-K", Num(3), 2024, None),
          Rec("2024-03-31", "2024-07-01", "10-Q", Str, 2024, None),
          Rec("2024-06-30", "2024-07-01", "10-Q", Num(0), 2024, None),
          Rec("2024-03-31", "2024-07-01", "10-Q", Num(3), 2025, None),
          Rec("2024-03-31", "2024-07-01", "10-Q", Num(3), 2024, "CY2024Q1")}

GrossProfitRecs ==
    {Rec(e, "2024-07-01", "10-Q", Num(1), 2024, None) :
        e \in {"2024-03-31", "2024-06-30", "2024-09-30", "n/a"}}

EPSUnits ==
    ("USD" :> <<Rec("2024-03-31", "2024-07-01", "10-Q", Num(2), 2024, None)>>)
    @@ ("USD/shares" :> <<Rec("2024-06-30", "2024-08-15", "10-K", Num(1), 2024, None)>>)

\* a concept of the payload: absent (<<>>), or its units dict
RevenuePayloads ==
    {<<>>}
    \cup {(tag_of(Revenue) :> (u :> recs)) :
            u \in {"USD", "EUR"}, recs \in SeqsUpTo(PanelRecs, MaxPanelRecs)}
    \cup {(tag_of(Revenue) :> (("EUR" :> recs) @@ ("GBP" :> recs))) :
            recs \in SeqsUpTo(PanelRecs, 1)}

GrossProfitPayloads ==
    {<<>>}
    \cup {(tag_of(GrossProfit) :> ("USD" :> recs)) :
            recs \in SeqsUpTo(GrossProfitRecs, MaxPanelRecs)}

KpiLists ==
    {<<>>, <<Revenue>>, <<Revenue, GrossProfit>>, <<GrossProfit, Revenue>>,
     <<GrossProfit, EPSDiluted, Revenue>>}

Init ==
    /\ kpis \in KpiLists
    /\ \E r \in RevenuePayloads : \E g \in GrossProfitPayloads :
            facts = r @@ g @@ (tag_of(EPSDiluted) :> EPSUnits)
    /\ pad \in BOOLEAN
    /\ sub_json = None /\ cik = None /\ listing = None
    /\ pc = "ready"
    /\ call = None
    /\ ret = NoReturn

\* --- margins: Revenue and Gross Profit values, zero among them, over
\*     periods that one series has and the other may lack
MarginRecs ==
    {Rec(e, "2024-07-01", "10-Q", v, 2024, None) :
        e \in {"2024-03-31", "2024-06-30"},
        v \in {Num(0), Num(40), Num(100)}}

MarginPayloads(kpi) ==
    {<<>>}
    \cup {(tag_of(kpi) :> ("USD" :> recs)) :
            recs \in SeqsUpTo(MarginRecs, MaxMarginRecs)}

InitMargin ==
    /\ kpis \in {<<Revenue, GrossProfit>>, <<GrossProfit, Revenue>>,
                 <<Revenue>>, <<GrossProfit>>}
    /\ \E r \in MarginPayloads(Revenue) : \E g \in MarginPayloads(GrossProfit) :
            facts = r @@ g
    /\ pad \in BOOLEAN
    /\ sub_json = None /\ cik = None /\ listing = None
    /\ pc = "ready"
    /\ call = None
    /\ ret = NoReturn

\* --- deltas: one Revenue series over up to MaxDates quarters, listed
\*     oldest first or newest first, values zero and missing among them
Dates ==
    <<"2024-03-31", "2024-06-30", "2024-09-30", "2024-12-31", "2025-03-31",
      "2025-06-30", "2025-09-30">>

DeltaVals == {Num(0), Num(2), Num(5), NaN}

RECURSIVE Reverse(_)
Reverse(s) == IF s = <<>> THEN <<>> ELSE Reverse(Tail(s)) \o <<Head(s)>>

\* the records of the quarters in D, oldest first, with values vals
DeltaRecs(D, vals) ==
    LET nth(p) == CHOOSE i \in D : Cardinality({j \in D : j <= i}) = p
    IN  [p \in 1..Cardinality(D) |->
            Rec(Dates[nth(p)], "2025-09-30", "10-Q", vals[nth(p)], 2024, None)]

InitDelta ==
    /\ kpis = <<Revenue>>
    /\ \E D \in SUBSET (1..MaxDates) : \E vals \in [D -> DeltaVals] :
        \E newest_first \in BOOLEAN :
            facts = (tag_of(Revenue) :> ("USD" :>
                        IF newest_first THEN Reverse(DeltaRecs(D, vals))
                        ELSE DeltaRecs(D, vals)))
    /\ pad \in BOOLEAN
    /\ sub_json = None /\ cik = None /\ listing = None
    /\ pc = "ready"
    /\ call = None
    /\ ret = NoReturn

-----------------------------------------------------------------------------
(* Actions: one call of one function *)

Call_pick_best_unit ==
    /\ pc = "ready"
    /\ Len(kpis) >= 1 /\ tag_of(kpis[1]) \in DOMAIN facts
    /\ ret' = [status |-> "ok",
               unit |-> pick_best_unit(facts[tag_of(kpis[1])], kpis[1].unit_preference)]
    /\ call' = "pick_best_unit"
    /\ pc' = "done"
    /\ UNCHANGED <<facts, kpis, pad, sub_json, cik, listing>>

Call_pick_unit ==
    /\ pc = "ready"
    /\ Len(kpis) >= 1 /\ tag_of(kpis[1]) \in DOMAIN facts
    /\ ret' = [status |-> "ok",
               unit |-> _pick_unit(facts[tag_of(kpis[1])], kpis[1].unit_preference)]
    /\ call' = "_pick_unit"
    /\ pc' = "done"
    /\ UNCHANGED <<facts, kpis, pad, sub_json, cik, listing>>

Call_companyfacts_to_tag_df ==
    /\ pc = "ready"
    /\ Len(kpis) >= 1
    /\ ret' = companyfacts_to_tag_df(facts, kpis[1])
    /\ call' = "companyfacts_to_tag_df"
    /\ pc' = "done"
    /\ UNCHANGED <<facts, kpis, pad, sub_json, cik, listing>>

Call_tag_series ==
    /\ pc = "ready"
    /\ Len(kpis) >= 1
    /\ ret' = tag_series(facts, kpis[1])
    /\ call' = "tag_series"
    /\ pc' = "done"
    /\ UNCHANGED <<facts, kpis, pad, sub_json, cik, listing>>

Call_build_kpi_panel ==
    /\ pc = "ready"
    /\ ret' \in build_kpi_panel(facts, kpis, pad)
    /\ call' = "build_kpi_panel"
    /\ pc' = "done"
    /\ UNCHANGED <<facts, kpis, pad, sub_json, cik, listing>>

Call_build_kpi_table ==
    /\ pc = "ready"
    /\ ret' \in build_kpi_table(facts)
    /\ call' = "build_kpi_table"
    /\ pc' = "done"
    /\ UNCHANGED <<facts, kpis, pad, sub_json, cik, listing>>

NextUnit ==
    \/ Call_pick_best_unit
    \/ Call_pick_unit
    \/ Call_companyfacts_to_tag_df
    \/ Call_tag_series

SpecUnit == InitUnit /\ [][NextUnit]_vars

NextNorm ==
    \/ Call_companyfacts_to_tag_df
    \/ Call_tag_series

SpecNorm == InitNorm /\ [][NextNorm]_vars

Next ==
    \/ Call_pick_best_unit
    \/ Call_pick_unit
    \/ Call_companyfacts_to_tag_df
    \/ Call_tag_series
    \/ Call_build_kpi_panel
    \/ Call_build_kpi_table

Spec == Init /\ [][Next]_vars

NextMargin ==
    \/ Call_build_kpi_panel
    \/ Call_build_kpi_table

SpecMargin == InitMargin /\ [][NextMargin]_vars

NextDelta == Call_build_kpi_panel

SpecDelta == InitDelta /\ [][NextDelta]_vars

-----------------------------------------------------------------------------
(* Properties of the normalizer *)

NormCalls == {"companyfacts_to_tag_df", "tag_series"}

\* a normalizer call has returned a series
NormReturned == pc = "done" /\ call \in NormCalls /\ ret.status = "ok"

\* the unit the selection rule names: the first preferred unit the data has,
\* else the data's only unit, else none
ExpectedUnit(units_dict, pref) ==
    LET present == {i \in 1..Len(pref) : pref[i] \in DOMAIN units_dict}
    IN  IF present # {}
        THEN pref[CHOOSE i \in present : \A j \in present : i <= j]
        ELSE IF Cardinality(DOMAIN units_dict) = 1
             THEN CHOOSE u \in DOMAIN units_dict : TRUE
             ELSE None

\* the records of the unit selected for a KPI (none when none is selected)
SelectedRecs(k) ==
    IF tag_of(k) \notin DOMAIN facts THEN <<>>
    ELSE LET u == ExpectedUnit(facts[tag_of(k)], k.unit_preference)
         IN  IF u \in DOMAIN facts[tag_of(k)] /\ u # "" THEN facts[tag_of(k)][u]
             ELSE <<>>

InputRecs == IF Len(kpis) >= 1 THEN SelectedRecs(kpis[1]) ELSE <<>>

\* the input records the form filter keeps
KeptRecs == {r \in Range(InputRecs) : r.form \in {"10-Q", "10-K"}}

\* C1: the series a normalizer returns has no two rows with the same
\* period_end; rows whose period_end did not parse count as sharing one.
C1_DedupInvariant ==
    NormReturned =>
        \A i, j \in 1..Len(ret.rows) :
            i # j => ret.rows[i].end_dt # ret.rows[j].end_dt

\* several kept records share a period_end, two of them an unparsable one,
\* and the series returned still has a dated row beside the undated one
C1_Witness ==
    /\ NormReturned
    /\ \E i, j \in 1..Len(InputRecs) :
        /\ i # j
        /\ InputRecs[i] \in KeptRecs /\ InputRecs[j] \in KeptRecs
        /\ to_datetime_safe(InputRecs[i].end) = NaT
        /\ to_datetime_safe(InputRecs[j].end) = NaT
    /\ Len(ret.rows) = 2

\* filing date b is strictly later than a; a date that did not parse is
\* earlier than every date that did
LaterFiled(b, a) == b # NaT /\ (a = NaT \/ b > a)

\* C2: every row of the series is one of the kept input records, and no kept
\* record with the same period_end has a strictly later filed_date (a parsed
\* filed_date being later than an unparsable one).
C2_RestatementResolution ==
    NormReturned =>
        \A i \in 1..Len(ret.rows) :
            /\ \E r \in KeptRecs :
                /\ to_datetime_safe(r.end) = ret.rows[i].end_dt
                /\ to_datetime_safe(r.filed) = ret.rows[i].filed_dt
                /\ r.val = ret.rows[i].val
                /\ r.form = ret.rows[i].form
            /\ \A q \in KeptRecs :
                to_datetime_safe(q.end) = ret.rows[i].end_dt
                    => ~LaterFiled(to_datetime_safe(q.filed), ret.rows[i].filed_dt)

\* a value first reported and later restated, the restatement second in the
\* list and with another value, and a third record of that period whose
\* filed_date does not parse
C2_Witness ==
    /\ NormReturned
    /\ Len(InputRecs) = 3
    /\ InputRecs[1] \in KeptRecs /\ InputRecs[2] \in KeptRecs /\ InputRecs[3] \in KeptRecs
    /\ InputRecs[1].end = "2024-06-30" /\ InputRecs[2].end = "2024-06-30"
    /\ InputRecs[3].end = "2024-06-30"
    /\ InputRecs[1].filed = "n/a"
    /\ InputRecs[2].filed = "2024-07-01" /\ InputRecs[3].filed = "2024-08-15"
    /\ InputRecs[2].val = Num(1) /\ InputRecs[3].val = Num(2)
    /\ Len(ret.rows) = 1 /\ ret.rows[1].val = Num(2)

\* C10: every row of a series has form 10-Q or 10-K; a record of another
\* form, or of none, never takes the place of a kept record of its period;
\* and a concept whose records are all of other forms, or of none, gives an
\* empty series, not an error.
C10_FormFiltering ==
    (pc = "done" /\ call \in NormCalls) =>
        /\ ret.status = "ok" =>
            /\ \A i \in 1..Len(ret.rows) : ret.rows[i].form \in {"10-Q", "10-K"}
            /\ \A r \in KeptRecs :
                \E i \in 1..Len(ret.rows) :
                    ret.rows[i].end_dt = to_datetime_safe(r.end)
        /\ (InputRecs # <<>> /\ KeptRecs = {}) =>
                (ret.status = "ok" /\ ret.rows = <<>>)

\* C10, where every record carries a form: the same statement holds of both
\* normalizers (it fails only where no record of the unit has a form field)
C10_FormFilteringWithForms ==
    (pc = "done" /\ call \in NormCalls
     /\ \E i \in 1..Len(InputRecs) : InputRecs[i].form # None) =>
        /\ ret.status = "ok"
        /\ \A i \in 1..Len(ret.rows) : ret.rows[i].form \in {"10-Q", "10-K"}
        /\ \A r \in KeptRecs :
            \E i \in 1..Len(ret.rows) :
                ret.rows[i].end_dt = to_datetime_safe(r.end)
        /\ KeptRecs = {} => ret.rows = <<>>

-----------------------------------------------------------------------------
(* Unit selection *)

\* C4: the unit selected is the first entry of the preference list that the
\* data has; with none of them present it is the data's only unit; with two
\* or more units, or none, no unit is selected and the series is empty.
C4_UnitSelection ==
    (pc = "done" /\ Len(kpis) >= 1 /\ tag_of(kpis[1]) \in DOMAIN facts) =>
        LET units_dict == facts[tag_of(kpis[1])]
            expected == ExpectedUnit(units_dict, kpis[1].unit_preference)
        IN  /\ call \in {"pick_best_unit", "_pick_unit"} => ret.unit = expected
            /\ (call \in NormCalls /\ expected = None) =>
                    (ret.status = "ok" /\ ret.rows = <<>>)

\* the first preferred unit is absent, the second is present beside a unit
\* that is not preferred
C4_Witness ==
    /\ pc = "done" /\ call = "pick_best_unit"
    /\ kpis[1].unit_preference = <<"USD/shares", "USD">>
    /\ DOMAIN facts[tag_of(kpis[1])] = {"USD", "XYZ"}
    /\ ret.unit = "USD"

-----------------------------------------------------------------------------
(* Properties of the panel *)

PanelCalls == {"build_kpi_panel", "build_kpi_table"}

PanelReturned == pc = "done" /\ call \in PanelCalls /\ ret.status = "ok"

\* the KPI definitions the call works through, and the series of one
Requested == IF call = "build_kpi_table" THEN KPI_DEFS ELSE kpis

SeriesOf(k) ==
    IF call = "build_kpi_table" THEN tag_series(facts, k)
    ELSE companyfacts_to_tag_df(facts, k)

OnOf == IF call = "build_kpi_table" THEN on_table ELSE on_panel

\* the period ends of what was returned, row by row
EndDates ==
    IF call \in NormCalls THEN [i \in 1..Len(ret.rows) |-> ret.rows[i].end_dt]
    ELSE [i \in 1..Len(ret.panel) |-> ret.panel[i].end_dt]

\* Timestamp <= Timestamp; every comparison with NaT is false
DateLeq(a, b) == a # NaT /\ b # NaT /\ a <= b

\* C3 as stated: period_end is non-decreasing from each row to the next in
\* every series and panel returned.
C3_OrderingAsStated ==
    (NormReturned \/ PanelReturned) =>
        \A i \in 1..(Len(EndDates) - 1) : DateLeq(EndDates[i], EndDates[i + 1])

\* C3 amended: the rows whose period_end parsed are in non-decreasing order
\* of period_end and come before every row whose period_end did not parse.
C3_OrderingParsedFirst ==
    (NormReturned \/ PanelReturned) =>
        \A i \in 1..(Len(EndDates) - 1) :
            EndDates[i + 1] # NaT =>
                (EndDates[i] # NaT /\ EndDates[i] <= EndDates[i + 1])

\* a panel merged from a Revenue and a Gross Profit series: two rows of one
\* period, a row of a later period and a row without a date
C3_Witness ==
    /\ PanelReturned /\ call = "build_kpi_panel"
    /\ {"Revenue", "Gross Profit"} \subseteq ret.columns
    /\ Len(ret.panel) = 4
    /\ ret.panel[1].end_dt = ret.panel[2].end_dt
    /\ ret.panel[2].end_dt < ret.panel[3].end_dt
    /\ ret.panel[4].end_dt = NaT

\* C5: every row of every non-empty series is in the panel, with its key and
\* its value, and a panel row that a series has no record for holds an empty
\* cell in that series' column.
C5_OuterJoinCompleteness ==
    PanelReturned =>
        \A n \in 1..Len(Requested) :
            LET k == Requested[n]
                d == SeriesOf(k)
            IN  /\ \A i \in 1..Len(d.rows) :
                    \E j \in 1..Len(ret.panel) :
                        /\ ret.panel[j].end_dt = d.rows[i].end_dt
                        /\ key(ret.panel[j], OnOf) = key(d.rows[i], OnOf)
                        /\ ret.panel[j].cells[k.label] = d.rows[i].val
                /\ d.rows # <<>> =>
                    \A j \in 1..Len(ret.panel) :
                        (\A i \in 1..Len(d.rows) :
                            key(d.rows[i], OnOf) # key(ret.panel[j], OnOf))
                        => isna(ret.panel[j].cells[k.label])

\* a period only Revenue reports and a period only Gross Profit reports
C5_Witness ==
    /\ PanelReturned
    /\ {"Revenue", "Gross Profit"} \subseteq ret.columns
    /\ \E i, j \in 1..Len(ret.panel) :
        /\ isna(ret.panel[i].cells["Revenue"])
        /\ ~isna(ret.panel[i].cells["Gross Profit"])
        /\ ~isna(ret.panel[j].cells["Revenue"])
        /\ isna(ret.panel[j].cells["Gross Profit"])

\* what the audit holds for each requested concept
AuditAsClaimed(audit) ==
    /\ Len(audit) = Len(kpis)
    /\ \A i \in 1..Len(kpis) :
        LET k == kpis[i]
            d == companyfacts_to_tag_df(facts, k)
        IN  /\ audit[i].KPI = k.label
            /\ audit[i].Tag = k.taxonomy \o ":" \o k.tag
            /\ d.rows # <<>> =>
                /\ audit[i].Status = "OK"
                /\ audit[i].Unit = ExpectedUnit(facts[tag_of(k)], k.unit_preference)
            /\ d.rows = <<>> =>
                /\ audit[i].Status = "Missing"
                /\ audit[i].Unit = None

\* C6: build_kpi_panel returns, for every payload, one audit entry per
\* requested concept in request order, Resolved with the unit selected and
\* the taxonomy:tag reference exactly when the concept's series is non-empty
\* and Missing without a unit otherwise; with no concept resolved the panel
\* is empty and every entry Missing.
C6_AuditCompleteness ==
    (pc = "done" /\ call = "build_kpi_panel") =>
        /\ ret.status = "ok"
        /\ AuditAsClaimed(ret.audit)
        /\ (\A i \in 1..Len(kpis) :
                companyfacts_to_tag_df(facts, kpis[i]).rows = <<>>)
            => ret.panel = <<>>

\* C6, where build_kpi_panel returns: the audit is as claimed
C6_AuditWhenReturned ==
    (PanelReturned /\ call = "build_kpi_panel") =>
        /\ AuditAsClaimed(ret.audit)
        /\ (\A i \in 1..Len(kpis) :
                companyfacts_to_tag_df(facts, kpis[i]).rows = <<>>)
            => ret.panel = <<>>

\* C7: a margin column exists exactly when its numerator column and Revenue
\* do; its cell is numerator / Revenue, and is empty when Revenue is 0 or
\* either operand is missing; it is never infinity and nothing is raised.
C7_MarginComputation ==
    (pc = "done" /\ call \in PanelCalls) =>
        /\ ret.status = "ok"
        /\ \A m \in margin_defs :
            /\ m.name \in ret.columns
                <=> (m.num \in ret.columns /\ "Revenue" \in ret.columns)
            /\ m.name \in ret.columns =>
                \A j \in 1..Len(ret.panel) :
                    LET rev == ret.panel[j].cells["Revenue"]
                        num == ret.panel[j].cells[m.num]
                        got == ret.panel[j].cells[m.name]
                    IN  IF isna(rev) \/ isna(num) \/ rev.n = 0
                        THEN isna(got)
                        ELSE SameCell(got, Frac(num.n, rev.n))

\* the change the claim gives row i of column c over p rows
DeltaAsClaimed(c, i, p) ==
    IF i - p < 1 THEN NaN
    ELSE LET prev == ret.panel[i - p].cells[c]
             cur == ret.panel[i].cells[c]
         IN  IF isna(prev) \/ prev.n = 0 \/ isna(cur) THEN NaN
             ELSE Frac(cur.n - prev.n, prev.n)

\* C8: QoQ % at row i is (v[i] - v[i-1]) / v[i-1] and YoY % is
\* (v[i] - v[i-4]) / v[i-4]; the cell is empty when the prior row does not
\* exist or the prior value is missing or zero.
C8_PeriodDeltas ==
    (PanelReturned /\ call = "build_kpi_panel") =>
        \A c \in delta_cols \cap ret.columns :
            \A i \in 1..Len(ret.panel) :
                /\ SameCell(ret.panel[i].cells[c \o " QoQ %"], DeltaAsClaimed(c, i, 1))
                /\ SameCell(ret.panel[i].cells[c \o " YoY %"], DeltaAsClaimed(c, i, 4))

\* a requested concept has, in its selected unit, a 10-Q or 10-K record
\* whose value is a string
NonNumericValue ==
    \E n \in 1..Len(Requested) :
        \E r \in Range(SelectedRecs(Requested[n])) :
            r.form \in {"10-Q", "10-K"} /\ r.val.k = "str"

\* C9: with a non-numeric value the normalizer still returns the series, in
\* which every kept period has its row and no row holds the non-numeric
\* value, and building the panel does not fail.
C9_NonNumericNonFatal ==
    (pc = "done" /\ call \in NormCalls \cup PanelCalls /\ NonNumericValue) =>
        /\ ret.status = "ok"
        /\ call \in NormCalls =>
            /\ \A i \in 1..Len(ret.rows) : ret.rows[i].val.k # "str"
            /\ \A r \in KeptRecs :
                \E i \in 1..Len(ret.rows) :
                    ret.rows[i].end_dt = to_datetime_safe(r.end)

\* the attributes the panel is keyed by
panel_key == {"period", "end_dt", "form", "filed_dt"}

\* C13 (panel key uniqueness): in every panel that is returned no two rows
\* agree on period label, period end, form and filing date: series rows
\* that report the same four are merged into one row, whatever their fiscal
\* year and fiscal period.
C13_PanelKeyUniqueness ==
    PanelReturned =>
        \A i, j \in 1..Len(ret.panel) :
            i # j => key(ret.panel[i], panel_key) # key(ret.panel[j], panel_key)

\* what the code does keep: build_kpi_table joins on the four attributes and
\* its rows are unique in them; build_kpi_panel joins on fy and fp as well,
\* and its rows are unique in the six
C13_UniqueInJoinKey ==
    PanelReturned =>
        \A i, j \in 1..Len(ret.panel) :
            i # j => key(ret.panel[i], OnOf) # key(ret.panel[j], OnOf)

-----------------------------------------------------------------------------
(* Filing history: extract_filings_table of src/app.py and of              *)
(* src/src/sec/filings.py.  A JSON object is a function from its keys, {}  *)
(* is the empty function; the recent section holds one array per field.    *)

\* dict.get(k, default)
get(d, k, default) == IF k \in DOMAIN d THEN d[k] ELSE default

SEC_ARCHIVES_BASE == "https://www.sec.gov/Archives/edgar/data"

\* the dash-separated parts of the accession numbers of the model
dash_parts(accession) ==
    CASE accession = "0000320193-24-000081" -> <<"0000320193", "24", "000081">>
      [] OTHER -> <<accession>>

RECURSIVE concat(_)
concat(parts) == IF parts = <<>> THEN "" ELSE Head(parts) \o concat(Tail(parts))

\* accession.replace("-", "")
accession_no_dashes(accession) == concat(dash_parts(accession))

build_filing_url(cik_, accession, primary_doc) ==
    SEC_ARCHIVES_BASE \o "/" \o ToString(cik_) \o "/"
        \o accession_no_dashes(accession) \o "/" \o primary_doc

\* the columns extract_filings_table keeps, and the forms it keeps
filing_columns ==
    {"filingDate", "reportDate", "form", "accessionNumber", "primaryDocument"}

filing_forms == {"10-Q", "10-K", "8-K"}

\* sort_values("filingDate", ascending=False) over the rows I of df: every
\* order that is descending in filingDate with NaT last
RECURSIVE sort_values_filingDate(_, _)
sort_values_filingDate(df, I) ==
    IF I = {} THEN {<<>>}
    ELSE UNION {{<<df[m]>> \o t : t \in sort_values_filingDate(df, I \ {m})} :
                m \in {x \in I : \A y \in I :
                          ~DescBefore(df[y].filingDate, df[x].filingDate)}}

\* a call that raised, and the empty table pd.DataFrame()
FilingsRaised == [status |-> "raise", columns |-> {}, rows |-> <<>>]

NoFilings == [status |-> "ok", columns |-> {}, rows |-> <<>>]

\* the set of tables the call can return (the sort leaves ties in any order)
extract_filings_table(sub_json_, cik_) ==
    LET recent == get(get(sub_json_, "filings", <<>>), "recent", <<>>)
    IN
    IF DOMAIN recent = {} THEN {NoFilings}
    ELSE
    LET n    == Len(recent[CHOOSE c \in DOMAIN recent : TRUE])
        keep == filing_columns \cap DOMAIN recent
    IN
    IF n = 0 THEN {[status |-> "ok", columns |-> DOMAIN recent, rows |-> <<>>]}
    \* df["form"], df["filingDate"], df["reportDate"]: KeyError without the column
    ELSE IF "form" \notin keep THEN {FilingsRaised}
    ELSE IF "filingDate" \notin keep THEN {FilingsRaised}
    ELSE IF "reportDate" \notin keep THEN {FilingsRaised}
    ELSE
    LET notna(i, c) == c \in keep /\ recent[c][i] # None
        url(i) == IF notna(i, "accessionNumber") /\ notna(i, "primaryDocument")
                  THEN build_filing_url(cik_, recent["accessionNumber"][i],
                                        recent["primaryDocument"][i])
                  ELSE None
        df == [i \in 1..n |->
                 [c \in keep \cup {"url"} |->
                    CASE c = "url" -> url(i)
                      [] c \in {"filingDate", "reportDate"} ->
                            to_datetime_safe(recent[c][i])
                      [] OTHER -> recent[c][i]]]
        I  == {i \in 1..n : recent["form"][i] \in filing_forms}
    IN  {[status |-> "ok", columns |-> keep \cup {"url"}, rows |-> rows] :
            rows \in sort_values_filingDate(df, I)}

\* --- submissions payloads: up to MaxFilings recent filings, any subset of
\*     the parallel arrays, or no recent section at all
MaxFilings == 2

FilingRows ==
    [filingDate : {"2024-07-01", "2024-08-15", "n/a"},
     reportDate : {"2024-03-31"},
     form : {"10-Q", "8-K", "4"},
     accessionNumber : {"0000320193-24-000081", None},
     primaryDocument : {"aapl-20240928.htm"}]

Submissions ==
    {<<>>, ("filings" :> <<>>), ("filings" :> ("recent" :> <<>>))}
    \cup {("filings" :> ("recent" :>
              [c \in F |-> [i \in 1..Len(fs) |-> fs[i][c]]])) :
            F \in SUBSET filing_columns \ {{}},
            fs \in SeqsUpTo(FilingRows, MaxFilings)}

InitFilings ==
    /\ sub_json \in Submissions
    /\ cik = 320193
    /\ facts = <<>> /\ kpis = <<>> /\ pad = TRUE /\ listing = None
    /\ pc = "ready"
    /\ call = None
    /\ ret = NoReturn

\* src/app.py
Call_extract_filings_table ==
    /\ pc = "ready"
    /\ ret' \in extract_filings_table(sub_json, cik)
    /\ call' = "extract_filings_table"
    /\ pc' = "done"
    /\ UNCHANGED <<facts, kpis, pad, sub_json, cik, listing>>

\* src/src/sec/filings.py: the same function, line for line
Call_filings_extract_filings_table ==
    /\ pc = "ready"
    /\ ret' \in extract_filings_table(sub_json, cik)
    /\ call' = "filings.extract_filings_table"
    /\ pc' = "done"
    /\ UNCHANGED <<facts, kpis, pad, sub_json, cik, listing>>

NextFilings ==
    \/ Call_extract_filings_table
    \/ Call_filings_extract_filings_table

SpecFilings == InitFilings /\ [][NextFilings]_vars

\* --- properties of the filing history

FilingsCalls == {"extract_filings_table", "filings.extract_filings_table"}

recent_of == get(get(sub_json, "filings", <<>>), "recent", <<>>)

\* the number of filings in the recent section
recent_len ==
    IF DOMAIN recent_of = {} THEN 0
    ELSE Len(recent_of[CHOOSE c \in DOMAIN recent_of : TRUE])

\* the filings of the payload whose form is 10-Q, 10-K or 8-K
KeptFilings ==
    {i \in 1..recent_len :
        "form" \in DOMAIN recent_of /\ recent_of["form"][i] \in filing_forms}

\* C11 (Filing History Extractor): every call of extract_filings_table
\* returns without error; an empty or absent recent section gives an empty
\* result; a missing parallel array leaves that field absent; and the
\* result holds exactly the 10-Q, 10-K and 8-K filings, in non-increasing
\* filing date order.
C11_FilingExtractor ==
    (pc = "done" /\ call \in FilingsCalls) =>
        /\ ret.status = "ok"
        /\ recent_len = 0 => ret.rows = <<>>
        /\ \A c \in filing_columns \ DOMAIN recent_of : c \notin ret.columns
        /\ Len(ret.rows) = Cardinality(KeptFilings)
        /\ \A i \in 1..Len(ret.rows) : ret.rows[i].form \in filing_forms
        /\ \A i \in 1..(Len(ret.rows) - 1) :
              /\ ret.rows[i].filingDate # NaT
              /\ ret.rows[i + 1].filingDate # NaT
              /\ ret.rows[i].filingDate >= ret.rows[i + 1].filingDate

\* what the code does keep: with the form, filingDate and reportDate arrays
\* present the call returns the kept filings, dated ones first and newest
\* first, and a missing accessionNumber or primaryDocument array is absent
C11_WithDateAndFormArrays ==
    (/\ pc = "done" /\ call \in FilingsCalls
     /\ recent_len > 0
     /\ {"form", "filingDate", "reportDate"} \subseteq DOMAIN recent_of) =>
        /\ ret.status = "ok"
        /\ \A c \in filing_columns \ DOMAIN recent_of : c \notin ret.columns
        /\ Len(ret.rows) = Cardinality(KeptFilings)
        /\ \A i \in 1..Len(ret.rows) : ret.rows[i].form \in filing_forms
        /\ \A i \in 1..(Len(ret.rows) - 1) :
              ~DescBefore(ret.rows[i + 1].filingDate, ret.rows[i].filingDate)

-----------------------------------------------------------------------------
(* Ticker listing: parse_ticker_map of src/src/sec/src/sec/ticker_map.py   *)
(* and load_ticker_map of src/app.py (lines 150-164, after the fetch).     *)
(* The payload is [shape, records]: a JSON object ("dict", its values in   *)
(* order), a JSON array ("list") or anything else ("other").  A record is  *)
(* a JSON object, a function from the keys it has; a JSON string where a   *)
(* record should be is Str.  A null is None for a ticker, NaN for an id.   *)

\* a JSON string of digits, such as "320193"
NumStr(n) == [k |-> "numstr", n |-> n, d |-> 1]

\* isinstance(v, dict)
is_dict(v) == "k" \notin DOMAIN v

\* str(x) on the tickers of the model
str(x) == IF x = None THEN "None" ELSE x

\* x.upper() on the tickers of the model
upper(x) ==
    CASE x = "aapl" -> "AAPL"
      [] x = "msft" -> "MSFT"
      [] x = "None" -> "NONE"
      [] OTHER -> x

\* the order of Python strings, on the upper-case tickers of the model
ticker_rank(t) ==
    CASE t = "" -> 0
      [] t = "AAPL" -> 1
      [] t = "MSFT" -> 2
      [] t = "NONE" -> 3
      [] OTHER -> 4

\* int(cik) returns for a number and for a string of digits, and raises for
\* None (TypeError) and for any other string (ValueError)
int_raises(cik_str) == cik_str.k \notin {"num", "numstr"}

int(cik_str) == cik_str.n

\* drop_duplicates("ticker"): the first row of every ticker
RECURSIVE drop_duplicates_ticker(_, _)
drop_duplicates_ticker(rows, seen) ==
    IF rows = <<>> THEN <<>>
    ELSE IF Head(rows).ticker \in seen
         THEN drop_duplicates_ticker(Tail(rows), seen)
         ELSE <<Head(rows)>>
              \o drop_duplicates_ticker(Tail(rows), seen \cup {Head(rows).ticker})

\* sort_values("ticker") on rows with distinct tickers
sort_values_ticker(rows) ==
    LET pos(i) == 1 + Cardinality({j \in 1..Len(rows) :
                        ticker_rank(rows[j].ticker) < ticker_rank(rows[i].ticker)})
    IN  [p \in 1..Len(rows) |-> rows[CHOOSE i \in 1..Len(rows) : pos(i) = p]]

ticker_row(v) ==
    [ticker |-> upper(str(get(v, "ticker", ""))),
     cik    |-> int(get(v, "cik_str", NaN)),
     title  |-> get(v, "title", "")]

\* ticker_map.py: the rows the loop appends; a record that raises is skipped
RECURSIVE parse_rows(_)
parse_rows(iterable) ==
    IF iterable = <<>> THEN <<>>
    ELSE LET v == Head(iterable)
             appended ==
                IF ~is_dict(v) THEN <<>>                  \* v.get: AttributeError
                ELSE IF upper(str(get(v, "ticker", ""))) = "" THEN <<>>
                ELSE IF "cik_str" \notin DOMAIN v \/ v["cik_str"] = NaN THEN <<>>
                ELSE IF int_raises(v["cik_str"]) THEN <<>>
                ELSE <<ticker_row(v)>>
         IN  appended \o parse_rows(Tail(iterable))

parse_ticker_map(data_) ==
    LET iterable == IF data_.shape \in {"dict", "list"} THEN data_.records
                    ELSE <<>>
        rows == parse_rows(iterable)
    IN  IF rows = <<>> THEN [status |-> "ok", rows |-> <<>>]
        ELSE [status |-> "ok",
              rows |-> sort_values_ticker(drop_duplicates_ticker(rows, {}))]

\* src/app.py: no record is guarded, and the table is indexed by "ticker"
load_ticker_map(data_) ==
    \* data.items(): AttributeError on anything but a mapping
    IF data_.shape # "dict" THEN [status |-> "raise", rows |-> <<>>]
    ELSE IF \E i \in 1..Len(data_.records) :
                \/ ~is_dict(data_.records[i])
                \/ int_raises(get(data_.records[i], "cik_str", NaN))
         THEN [status |-> "raise", rows |-> <<>>]
    \* df["ticker"] on pd.DataFrame([]): KeyError
    ELSE IF data_.records = <<>> THEN [status |-> "raise", rows |-> <<>>]
    ELSE LET rows == [i \in 1..Len(data_.records) |-> ticker_row(data_.records[i])]
             df   == SelectSeq(rows, LAMBDA r : r.ticker # "")
         IN  [status |-> "ok",
              rows |-> sort_values_ticker(drop_duplicates_ticker(df, {}))]

\* --- listing payloads: up to MaxListing records, each with or without a
\*     ticker and an id, well-formed or not
MaxListing == 2

ListingRecords ==
    {Str}
    \cup {<<>>}
    \cup {("ticker" :> t) @@ ("cik_str" :> c) @@ ("title" :> "Apple Inc.") :
            t \in {"aapl", "AAPL", "msft", "", None},
            c \in {Num(320193), NumStr(789019), Str, NaN}}
    \cup {("cik_str" :> c) @@ ("title" :> "Apple Inc.") :
            c \in {Num(320193), Str}}
    \cup {("ticker" :> t) @@ ("title" :> "Apple Inc.") : t \in {"aapl", ""}}

Listings ==
    {[shape |-> "other", records |-> <<>>]}
    \cup {[shape |-> sh, records |-> rs] :
            sh \in {"dict", "list"}, rs \in SeqsUpTo(ListingRecords, MaxListing)}

InitListing ==
    /\ listing \in Listings
    /\ facts = <<>> /\ kpis = <<>> /\ pad = TRUE
    /\ sub_json = None /\ cik = None
    /\ pc = "ready"
    /\ call = None
    /\ ret = NoReturn

Call_parse_ticker_map ==
    /\ pc = "ready"
    /\ ret' = parse_ticker_map(listing)
    /\ call' = "parse_ticker_map"
    /\ pc' = "done"
    /\ UNCHANGED <<facts, kpis, pad, sub_json, cik, listing>>

Call_load_ticker_map ==
    /\ pc = "ready"
    /\ ret' = load_ticker_map(listing)
    /\ call' = "load_ticker_map"
    /\ pc' = "done"
    /\ UNCHANGED <<facts, kpis, pad, sub_json, cik, listing>>

NextListing ==
    \/ Call_parse_ticker_map
    \/ Call_load_ticker_map

SpecListing == InitListing /\ [][NextListing]_vars

\* --- properties of the ticker listing

ResolverCalls == {"parse_ticker_map", "load_ticker_map"}

\* a record with a ticker that is present, not null and not empty
HasTicker(v) ==
    is_dict(v) /\ "ticker" \in DOMAIN v /\ v["ticker"] \notin {None, ""}

\* a record with an id that is present and numeric
HasNumericId(v) ==
    is_dict(v) /\ "cik_str" \in DOMAIN v /\ v["cik_str"].k \in {"num", "numstr"}

\* the rows come from records that have a ticker and a numeric id, carry
\* upper-case tickers, one row per ticker, in ascending ticker order
RowsAsClaimed ==
    /\ \A i \in 1..Len(ret.rows) :
          /\ upper(ret.rows[i].ticker) = ret.rows[i].ticker
          /\ \E j \in 1..Len(listing.records) :
                /\ HasTicker(listing.records[j])
                /\ HasNumericId(listing.records[j])
                /\ upper(listing.records[j]["ticker"]) = ret.rows[i].ticker
    /\ \A i, j \in 1..Len(ret.rows) :
          i < j => ticker_rank(ret.rows[i].ticker) < ticker_rank(ret.rows[j].ticker)

\* C12 (Identity Resolver): resolving identities never raises; a record
\* whose ticker is missing, null or empty, or whose id is missing or
\* non-numeric, contributes no row; the rows have upper-case tickers, at
\* most one row per ticker, ascending by ticker; and a payload that is
\* neither a mapping nor a sequence gives an empty result.
C12_IdentityResolver ==
    (pc = "done" /\ call \in ResolverCalls) =>
        /\ ret.status = "ok"
        /\ RowsAsClaimed
        /\ listing.shape = "other" => ret.rows = <<>>

\* what parse_ticker_map does keep: it never raises, and when no record has
\* a null ticker its rows are as claimed
C12_ParseWithoutNullTicker ==
    (/\ pc = "done" /\ call = "parse_ticker_map"
     /\ \A j \in 1..Len(listing.records) :
            is_dict(listing.records[j]) =>
                get(listing.records[j], "ticker", "") # None) =>
        /\ ret.status = "ok"
        /\ RowsAsClaimed
        /\ listing.shape = "other" => ret.rows = <<>>

====
